---------------------------- MODULE Spec2Model ----------------------------
(***************************************************************************)
(* A model of f5_tts_mlx/cfm.py: the conditional flow matching engine      *)
(* F5TTS.  Two operations are modelled, statement by statement:            *)
(*   - F5TTS.sample   (lines 222-377) with its nested velocity function fn *)
(*     (316-342) and the two solvers odeint_euler / odeint_midpoint        *)
(*     (170-220);                                                          *)
(*   - F5TTS.__call__ (lines 85-168), the training loss.                   *)
(*                                                                         *)
(* Arrays are modelled cell by cell.  A cell of a feature array is a       *)
(* 5-tuple <<kind, a, b, c, d>>: the padding value 0, the value the caller *)
(* supplied at (example, position), a value drawn from the random          *)
(* generator, or the value of a trajectory state.  The channel axis of     *)
(* sample's arrays is carried inside a cell (every statement of sample     *)
(* treats the channels of one position alike).                             *)
(*                                                                         *)
(* Numbers with a fractional part are kept as integers in a fixed unit:    *)
(* cfg_strength and the velocities in millionths (Micro), seconds and      *)
(* speed in quarters.                                                      *)
(***************************************************************************)
EXTENDS Integers, Sequences, FiniteSets, TLC

(***************************************************************************)
(* Bounds of the model.                                                    *)
(***************************************************************************)
MaxBatch == 2
MaxCondLen == 2
MaxText == 3
MaxDur == 5
MaxSteps == 3
MaxSeed == 2
MaxPred == 2
MaxChannels == 2

(***************************************************************************)
(* Program constants.                                                      *)
(***************************************************************************)
\* 1e-5, the guidance threshold of fn (line 327), in millionths
CfgEpsilonMicro == 10
\* the unit of cfg_strength and of fn's result
Micro == 1000000

VARIABLES
    pc,          \* position of sample: start, duration, noise, euler, midpoint,
                 \* done, error (idle: not called)
    args,        \* the arguments of the call and the configuration of self
    lens,        \* lens, per example (252-266)
    duration,    \* duration: [kind: none | int | array, v] (270-290)
    predictor_calls, \* calls of self._duration_predictor
    max_duration,\* max_duration after line 291
    cond,        \* cond, from line 293 on: per example, per position, a cell
    cond_mask,   \* cond_mask, from line 299 on
    step_cond,   \* step_cond (303)
    mask,        \* mask (305-308): None or Some(array)
    rng,         \* the process-wide random generator: [key, n]
    seed_calls,  \* calls of mx.random.seed
    noise,       \* the list y0 while it is built (346-350)
    y0,          \* y0 after pad_sequence (351)
    ys,          \* the list ys of the solver: one term per state
    fn_log,      \* one record per invocation of fn
    out,         \* out of line 368, before the vocoder
    err,         \* the exception that ended the call
    tpc,         \* position of __call__: start, flow, dropout, predict, loss,
                 \* done (idle: not called)
    targs,       \* the arguments and random draws of __call__
    tres         \* what __call__ computed

sampleVars == <<pc, args, lens, duration, predictor_calls, max_duration, cond,
                cond_mask, step_cond, mask, rng, seed_calls, noise, y0, ys,
                fn_log, out, err>>
trainVars == <<tpc, targs, tres>>
vars == <<sampleVars, trainVars>>

(***************************************************************************)
(* Helpers.                                                                *)
(***************************************************************************)
Max2(a, b) == IF a >= b THEN a ELSE b
Min2(a, b) == IF a <= b THEN a ELSE b
Abs(a) == IF a >= 0 THEN a ELSE 0 - a

RECURSIVE SeqMax(_)
\* the maximum of a non-empty sequence of integers (mx.array.max)
SeqMax(s) == IF Len(s) = 1 THEN s[1] ELSE Max2(s[1], SeqMax(Tail(s)))

RECURSIVE CountNot(_, _)
\* (row != v).sum()
CountNot(row, v) ==
    IF row = <<>> THEN 0
    ELSE (IF row[1] # v THEN 1 ELSE 0) + CountNot(Tail(row), v)

\* x.astype(mx.int32) of the quotient n / d (d > 0): the fraction is dropped,
\* towards zero
TruncDiv(n, d) == IF n >= 0 THEN n \div d ELSE 0 - ((0 - n) \div d)

\* Optional values
None == [some |-> FALSE, v |-> <<>>]
NoInt == [some |-> FALSE, v |-> 0]
Some(x) == [some |-> TRUE, v |-> x]

\* Cells
Zero == <<"zero", 0, 0, 0, 0>>
CondCell(b, p) == <<"cond", b, p, 0, 0>>
NoiseCell(r, dur, p) == <<"noise", r.key, r.n, dur, p>>
TrajCell(i, b, p) == <<"y", i, b, p, 0>>

\* mx.zeros_like
zeros_like(a) == [b \in DOMAIN a |-> [p \in DOMAIN a[b] |-> Zero]]

\* mx.where(m, x, y) on arrays of one shape
where(m, x, y) ==
    [b \in DOMAIN x |-> [p \in DOMAIN x[b] |-> IF m[b][p] THEN x[b][p] ELSE y[b][p]]]

\* lens_to_mask(lens, length): true exactly at the positions < lens
lens_to_mask(ls, length) ==
    [b \in DOMAIN ls |-> [p \in 1..length |-> p - 1 < ls[b]]]

\* mx.pad of the position axis of a (batch, n) array to n + extra with `value`
pad_positions(a, extra, value) ==
    [b \in DOMAIN a |->
        [p \in 1..(Len(a[b]) + extra) |-> IF p <= Len(a[b]) THEN a[b][p] ELSE value]]

\* pad_sequence(rows, padding_value): rows padded to the longest of them
pad_sequence(rows, value) ==
    LET n == SeqMax([b \in DOMAIN rows |-> Len(rows[b])])
    IN  [b \in DOMAIN rows |->
            [p \in 1..n |-> IF p <= Len(rows[b]) THEN rows[b][p] ELSE value]]


(***************************************************************************)
(* F5TTS.sample: the pieces of its body.                                   *)
(***************************************************************************)

\* lines 252-266: lens defaults to the conditioning length and is raised to
\* the number of text tokens that are not the padding id -1
ResolveLens(a) ==
    LET given == IF a.lens.some THEN a.lens.v
                 ELSE [b \in 1..a.batch |-> a.cond_seq_len]
    IN  IF a.text.some
        THEN [b \in 1..a.batch |-> Max2(CountNot(a.text.v[b], -1), given[b])]
        ELSE given

\* FrameCount with the frame rate kept exact and the result rounded to nearest
FrameCountExact(secsQ, sample_rate, hop_length, speedQ) ==
    TruncDiv(2 * secsQ * sample_rate + (IF secsQ >= 0 THEN 1 ELSE 0 - 1) * hop_length * speedQ,
             2 * hop_length * speedQ)

\* lines 272-273: frame_rate = sample_rate // hop_length;
\* duration = (duration_in_sec * frame_rate / speed).astype(mx.int32).item()
\* (seconds and speed in quarters: the quarters cancel)
FrameCount(secsQ, sample_rate, hop_length, speedQ) ==
    LET frame_rate == sample_rate \div hop_length
    IN  TruncDiv(secsQ * frame_rate, speedQ)

\* mx.clip(x, lo, hi)
Clip(x, lo, hi) == Min2(Max2(x, lo), hi)

\* ClampDuration without line 289
ClampDurationNoRaise(ls, dur, maxd) ==
    LET d0 == IF dur.kind = "int" THEN [b \in DOMAIN ls |-> dur.v[1]] ELSE dur.v
    IN  [b \in DOMAIN ls |-> Clip(d0[b], 0, maxd)]

\* lines 286-290: an int is broadcast; duration = maximum(lens + 1, duration);
\* duration = clip(duration, 0, max_duration)
ClampDuration(ls, dur, maxd) ==
    LET d0 == IF dur.kind = "int" THEN [b \in DOMAIN ls |-> dur.v[1]] ELSE dur.v
        d1 == [b \in DOMAIN ls |-> Max2(ls[b] + 1, d0[b])]
    IN  [b \in DOMAIN ls |-> Clip(d1[b], 0, maxd)]

\* lines 282-284: cond_mask = lens_to_mask(lens), and-ed with edit_mask
CondMask(ls, edit) ==
    LET cm == lens_to_mask(ls, SeqMax(ls))
    IN  IF edit.some
        THEN [b \in DOMAIN cm |-> [p \in DOMAIN cm[b] |-> cm[b][p] /\ edit.v[b][p]]]
        ELSE cm

\* the conditioning the caller supplied: one cell per example and position
CallerCond(a) ==
    [b \in 1..a.batch |-> [p \in 1..a.cond_seq_len |-> CondCell(b, p)]]

\* line 303: step_cond = mx.where(cond_mask, cond, mx.zeros_like(cond)), with
\* cond as it is at that line: padded, and not yet touched by no_ref_audio
StepCond(cm, padded, no_ref_audio) == where(cm, padded, zeros_like(padded))

\* lines 311-312: if no_ref_audio: cond = mx.zeros_like(cond)
CondAfterNoRef(padded, no_ref_audio) ==
    IF no_ref_audio THEN zeros_like(padded) ELSE padded

\* the transformer collaborator: a side-effect-free function; what it answers
\* to the conditioned and to the unconditioned question is part of args
Transformer(call) ==
    IF call.drop_audio_cond /\ call.drop_text THEN args.velocity.u
    ELSE args.velocity.c

TransformerCall(t, x, dac, dt) ==
    [x |-> x, cond |-> step_cond, time |-> t, mask |-> mask,
     drop_audio_cond |-> dac, drop_text |-> dt]

\* Guide with the difference taken the other way round
GuideTowardsNull(pred, null_pred, cfg) == pred * Micro + (null_pred - pred) * cfg

\* lines 340: output = pred + (pred - null_pred) * cfg_strength, in millionths
Guide(pred, null_pred, cfg) == pred * Micro + (pred - null_pred) * cfg

\* lines 316-342: the velocity function.  mx.eval materializes what it returns.
fn(t, x) ==
    LET c1 == TransformerCall(t, x, FALSE, FALSE)
        pred == Transformer(c1)
        c2 == TransformerCall(t, x, TRUE, TRUE)
        null_pred == Transformer(c2)
    IN  IF args.cfg_strength < CfgEpsilonMicro
        THEN [t |-> t, x |-> x, calls |-> <<c1>>, preds |-> <<pred>>,
              output |-> pred * Micro, evaluated |-> TRUE]
        ELSE [t |-> t, x |-> x, calls |-> <<c1, c2>>, preds |-> <<pred, null_pred>>,
              output |-> Guide(pred, null_pred, args.cfg_strength),
              evaluated |-> TRUE]

\* the time t[i] + half * 0.5 * dt of step i, and the state handed to fn there:
\* ys[i] itself, or the midpoint built from it and k1
TimeAt(i, half) == [i |-> i, half |-> half]
StateAt(i, half, k1) == [y |-> i, mid |-> half, k1 |-> k1]

\* lines 366-368: sampled = trajectory[-1]; out = mx.where(cond_mask, cond, sampled)
Sampled(traj, noise0) ==
    [b \in DOMAIN noise0 |->
        [p \in DOMAIN noise0[b] |->
            IF Len(traj) = 1 THEN noise0[b][p] ELSE TrajCell(Len(traj), b, p)]]

\* FinalOut without line 368: the trajectory's last state is returned as it is
FinalOutNoReinsert(cm, c, sampled) == sampled

FinalOut(cm, c, sampled) == where(cm, c, sampled)

(***************************************************************************)
(* F5TTS.sample: the state machine.                                        *)
(***************************************************************************)

TrainIdle ==
    /\ tpc = "idle"
    /\ targs = <<>>
    /\ tres = <<>>

\* the state when sample is entered with the arguments a; a.rng0 is the state
\* the process-wide generator is in at that time
SampleInit(a) ==
    /\ pc = "start"
    /\ args = a
    /\ lens = <<>>
    /\ duration = a.duration
    /\ predictor_calls = 0
    /\ max_duration = a.max_duration
    /\ cond = <<>>
    /\ cond_mask = <<>>
    /\ step_cond = <<>>
    /\ mask = None
    /\ rng = a.rng0
    /\ seed_calls = 0
    /\ noise = <<>>
    /\ y0 = <<>>
    /\ ys = <<>>
    /\ fn_log = <<>>
    /\ out = <<>>
    /\ err = "none"
    /\ TrainIdle

\* lines 251-266
Lens ==
    /\ pc = "start"
    /\ lens' = ResolveLens(args)
    /\ pc' = "duration"
    /\ UNCHANGED <<args, duration, predictor_calls, max_duration, cond, cond_mask,
                   step_cond, mask, rng, seed_calls, noise, y0, ys, fn_log, out,
                   err, trainVars>>

\* lines 270-276: no duration given, a predictor is set
PredictDuration ==
    /\ pc = "duration"
    /\ duration.kind = "none"
    /\ args.predictor.some
    /\ predictor_calls' = predictor_calls + 1
    /\ duration' = [kind |-> "int",
                    v |-> <<FrameCount(args.predictor.v, args.sample_rate,
                                       args.hop_length, args.speed)>>]
    /\ UNCHANGED <<pc, args, lens, max_duration, cond, cond_mask, step_cond, mask,
                   rng, seed_calls, noise, y0, ys, fn_log, out, err, trainVars>>

\* DurationError as a fall-through: the missing duration is taken to be 0
DurationDefaulted ==
    /\ pc = "duration"
    /\ duration.kind = "none"
    /\ ~args.predictor.some
    /\ duration' = [kind |-> "int", v |-> <<0>>]
    /\ UNCHANGED <<pc, args, lens, predictor_calls, max_duration, cond, cond_mask,
                   step_cond, mask, rng, seed_calls, noise, y0, ys, fn_log, out,
                   err, trainVars>>

\* lines 277-280: no duration given and no predictor
DurationError ==
    /\ pc = "duration"
    /\ duration.kind = "none"
    /\ ~args.predictor.some
    /\ pc' = "error"
    /\ err' = "ValueError: duration"
    /\ UNCHANGED <<args, lens, duration, predictor_calls, max_duration, cond,
                   cond_mask, step_cond, mask, rng, seed_calls, noise, y0, ys,
                   fn_log, out, trainVars>>

\* lines 282-312.  mx.pad refuses a negative pad width: the call ends there.
Prepare ==
    /\ pc = "duration"
    /\ duration.kind # "none"
    /\ LET cm == CondMask(lens, args.edit_mask)
           dur == ClampDuration(lens, duration, args.max_duration)
           md == SeqMax(dur)
           padded == pad_positions(CallerCond(args), md - args.cond_seq_len, Zero)
           cmp == pad_positions(cm, md - SeqMax(lens), FALSE)
       IN  /\ duration' = [kind |-> "array", v |-> dur]
           /\ max_duration' = md
           /\ IF md < args.cond_seq_len \/ md < SeqMax(lens)
              THEN /\ pc' = "error"
                   /\ err' = "ValueError: pad"
                   /\ UNCHANGED <<cond, cond_mask, step_cond, mask>>
              ELSE /\ pc' = "noise"
                   /\ cond_mask' = cmp
                   /\ step_cond' = StepCond(cmp, padded, args.no_ref_audio)
                   /\ mask' = IF args.batch > 1 THEN Some(lens_to_mask(dur, md))
                              ELSE None
                   /\ cond' = CondAfterNoRef(padded, args.no_ref_audio)
                   /\ err' = err
    /\ UNCHANGED <<args, lens, predictor_calls, rng, seed_calls, noise, y0, ys,
                   fn_log, out, trainVars>>

\* Reseed hoisted out of the loop: only the first example's draw is seeded
ReseedOnce(r, seed, i) == IF seed.some /\ i = 1 THEN [key |-> seed.v, n |-> 0] ELSE r

\* lines 348-349, in the loop's turn for example i: if exists(seed):
\* mx.random.seed(seed)
Reseed(r, seed, i) == IF seed.some THEN [key |-> seed.v, n |-> 0] ELSE r

\* mx.random.normal((dur, num_channels)) drawn in generator state r
Normal(r, dur) == [p \in 1..dur |-> NoiseCell(r, dur, p)]

\* lines 347-350: one turn of the loop over the examples
DrawNoise ==
    /\ pc = "noise"
    /\ Len(noise) < args.batch
    /\ LET dur == duration.v[Len(noise) + 1]
           r == Reseed(rng, args.seed, Len(noise) + 1)
       IN  /\ seed_calls' = seed_calls + (IF args.seed.some THEN 1 ELSE 0)
           /\ noise' = Append(noise, Normal(r, dur))
           /\ rng' = [r EXCEPT !.n = r.n + 1]
    /\ UNCHANGED <<pc, args, lens, duration, predictor_calls, max_duration, cond,
                   cond_mask, step_cond, mask, y0, ys, fn_log, out, err, trainVars>>

\* lines 351-364: y0 is padded, the time grid built and the solver chosen
StartSolver ==
    /\ pc = "noise"
    /\ Len(noise) = args.batch
    /\ y0' = pad_sequence(noise, Zero)
    /\ IF args.method \in {"euler", "midpoint"}
       THEN /\ pc' = args.method
            /\ ys' = <<[y |-> 0, k |-> 0]>>
            /\ err' = err
       ELSE /\ pc' = "error"
            /\ err' = "ValueError: method"
            /\ ys' = ys
    /\ UNCHANGED <<args, lens, duration, predictor_calls, max_duration, cond,
                   cond_mask, step_cond, mask, rng, seed_calls, noise, fn_log, out,
                   trainVars>>

\* what one turn of odeint_euler's loop adds to fn's log (line 214)
EulerCalls(i) == <<fn(TimeAt(i, FALSE), StateAt(i, FALSE, 0))>>

\* MidpointCalls with the derivative at the midpoint taken from k1
MidpointCallsOnce(i) == <<fn(TimeAt(i, FALSE), StateAt(i, FALSE, 0))>>

\* what one turn of odeint_midpoint's loop adds to fn's log (lines 186-190)
MidpointCalls(i) ==
    LET k1 == fn(TimeAt(i, FALSE), StateAt(i, FALSE, 0))
        k2 == fn(TimeAt(i, TRUE), StateAt(i, TRUE, k1.output))
    IN  <<k1, k2>>

\* lines 209-218: one turn of odeint_euler's loop, for i in range(len(t) - 1)
EulerStep ==
    /\ pc = "euler"
    /\ Len(ys) - 1 < args.steps - 1
    /\ LET ks == EulerCalls(Len(ys))
       IN  /\ fn_log' = fn_log \o ks
           /\ ys' = Append(ys, [y |-> Len(ys), k |-> ks[Len(ks)].output])
    /\ UNCHANGED <<pc, args, lens, duration, predictor_calls, max_duration, cond,
                   cond_mask, step_cond, mask, rng, seed_calls, noise, y0, out, err,
                   trainVars>>

\* lines 181-194: one turn of odeint_midpoint's loop
MidpointStep ==
    /\ pc = "midpoint"
    /\ Len(ys) - 1 < args.steps - 1
    /\ LET ks == MidpointCalls(Len(ys))
       IN  /\ fn_log' = fn_log \o ks
           /\ ys' = Append(ys, [y |-> Len(ys), k |-> ks[Len(ks)].output])
    /\ UNCHANGED <<pc, args, lens, duration, predictor_calls, max_duration, cond,
                   cond_mask, step_cond, mask, rng, seed_calls, noise, y0, out, err,
                   trainVars>>

\* lines 196/220 and 366-377: the loop is over; the conditioning is put back
Finish ==
    /\ pc \in {"euler", "midpoint"}
    /\ ~(Len(ys) - 1 < args.steps - 1)
    /\ out' = FinalOut(cond_mask, cond, Sampled(ys, y0))
    /\ pc' = "done"
    /\ UNCHANGED <<args, lens, duration, predictor_calls, max_duration, cond,
                   cond_mask, step_cond, mask, rng, seed_calls, noise, y0, ys,
                   fn_log, err, trainVars>>

NextSample ==
    \/ Lens
    \/ PredictDuration
    \/ DurationError
    \/ Prepare
    \/ DrawNoise
    \/ StartSolver
    \/ EulerStep
    \/ MidpointStep
    \/ Finish

(***************************************************************************)
(* F5TTS.__call__: the training loss.  Arrays have three axes here:        *)
(* x[b][p][c] for example b, position p and channel c.  The random draws   *)
(* of the call (the span fractions and starts, x0, time, the two values of *)
(* random() and the transformer's prediction) are part of targs, in the    *)
(* order the call consumes them.                                           *)
(***************************************************************************)

RECURSIVE SumSeq(_)
\* the sum of a sequence of integers
SumSeq(q) == IF q = <<>> THEN 0 ELSE q[1] + SumSeq(Tail(q))

\* mx.sum of a three-axis array
Sum3(x) == SumSeq([b \in DOMAIN x |-> SumSeq([p \in DOMAIN x[b] |-> SumSeq(x[b][p])])])

\* mx.sum of a boolean two-axis array
Count2(m) ==
    SumSeq([b \in DOMAIN m |-> SumSeq([p \in DOMAIN m[b] |-> IF m[b][p] THEN 1 ELSE 0])])

\* lines 109-110: lens defaults to seq_len for every example
TrainLens(a) ==
    IF a.lens.some THEN a.lens.v ELSE [b \in 1..a.batch |-> a.seq_len]

\* mask_from_frac_lengths(lens, frac_lengths, max_length): per example a span
\* of round(f * len) positions starting in [0, len - span]; f and the start's
\* draw u are in tenths
mask_from_frac_lengths(ls, fracs, us, max_length) ==
    [b \in DOMAIN ls |->
        LET span == (2 * fracs[b] * ls[b] + 10) \div 20
            start == (us[b] * (ls[b] - span)) \div 10
        IN  [p \in 1..max_length |-> start <= p - 1 /\ p - 1 < start + span]]

\* line 119: rand_span_mask = rand_span_mask & mask
AndMask(m1, m2) == [b \in DOMAIN m1 |-> [p \in DOMAIN m1[b] |-> m1[b][p] /\ m2[b][p]]]

\* line 132, in halves: phi = (1 - t) * x0 + t * x1
Phi(x0, x1, time) ==
    [b \in DOMAIN x1 |-> [p \in DOMAIN x1[b] |-> [c \in DOMAIN x1[b][p] |->
        (2 - time[b]) * x0[b][p][c] + time[b] * x1[b][p][c]]]]

\* line 133: flow = x1 - x0
Flow(x0, x1) ==
    [b \in DOMAIN x1 |-> [p \in DOMAIN x1[b] |-> [c \in DOMAIN x1[b][p] |->
        x1[b][p][c] - x0[b][p][c]]]]

\* lines 136-140: cond = mx.where(rand_span_mask[..., None], 0, x1)
TrainCond(span, x1) ==
    [b \in DOMAIN x1 |-> [p \in DOMAIN x1[b] |-> [c \in DOMAIN x1[b][p] |->
        IF span[b][p] THEN 0 ELSE x1[b][p][c]]]]

\* DropFlags with one draw deciding both flags
DropFlagsOneDraw(randoms, audio_drop_prob, cond_drop_prob) ==
    [drop_audio_cond |-> randoms[1] < audio_drop_prob,
     drop_text |-> randoms[1] < cond_drop_prob,
     random_calls |-> 1]

\* lines 143-148: drop_audio_cond = random() < audio_drop_prob; a second
\* random() < cond_drop_prob sets both flags
DropFlags(randoms, audio_drop_prob, cond_drop_prob) ==
    LET first == randoms[1] < audio_drop_prob
        second == randoms[2] < cond_drop_prob
    IN  [drop_audio_cond |-> IF second THEN TRUE ELSE first,
         drop_text |-> second,
         random_calls |-> 2]

\* line 162: nn.losses.mse_loss(pred, flow, reduction="none")
SquaredError(pred, flow) ==
    [b \in DOMAIN pred |-> [p \in DOMAIN pred[b] |-> [c \in DOMAIN pred[b][p] |->
        (pred[b][p][c] - flow[b][p][c]) * (pred[b][p][c] - flow[b][p][c])]]]

\* MaskedLoss without line 165: every element is summed
UnmaskedLoss(span, se, channels) ==
    [sum |-> Sum3(se), divisor |-> Max2(Count2(span) * channels * Micro, 1)]

\* lines 164-166: the mask is repeated over the channels, the squared errors
\* outside it are zeroed, and the sum is divided by
\* maximum(sum(rand_span_mask), 1e-6); the divisor is kept in millionths
MaskedLoss(span, se, channels) ==
    LET masked == [b \in DOMAIN se |-> [p \in DOMAIN se[b] |-> [c \in DOMAIN se[b][p] |->
                      IF span[b][p] THEN se[b][p][c] ELSE 0]]]
    IN  [sum |-> Sum3(masked), divisor |-> Max2(Count2(span) * channels * Micro, 1)]

SampleIdle ==
    /\ pc = "idle"
    /\ args = <<>>
    /\ lens = <<>>
    /\ duration = <<>>
    /\ predictor_calls = 0
    /\ max_duration = 0
    /\ cond = <<>>
    /\ cond_mask = <<>>
    /\ step_cond = <<>>
    /\ mask = None
    /\ rng = <<>>
    /\ seed_calls = 0
    /\ noise = <<>>
    /\ y0 = <<>>
    /\ ys = <<>>
    /\ fn_log = <<>>
    /\ out = <<>>
    /\ err = "none"

NoResult ==
    [lens |-> <<>>, mask |-> <<>>, span_drawn |-> <<>>, rand_span_mask |-> <<>>,
     phi |-> <<>>, flow |-> <<>>, cond |-> <<>>,
     flags |-> [drop_audio_cond |-> FALSE, drop_text |-> FALSE, random_calls |-> 0],
     call |-> <<>>, pred |-> <<>>, loss |-> [sum |-> 0, divisor |-> 0]]

TrainInit(a) ==
    /\ tpc = "start"
    /\ targs = a
    /\ tres = NoResult
    /\ SampleIdle

\* lines 108-119
Masks ==
    /\ tpc = "start"
    /\ LET ls == TrainLens(targs)
           m == lens_to_mask(ls, targs.seq_len)
           drawn == mask_from_frac_lengths(ls, targs.frac_lengths, targs.starts,
                                           targs.seq_len)
       IN  tres' = [tres EXCEPT !.lens = ls, !.mask = m, !.span_drawn = drawn,
                                !.rand_span_mask = AndMask(drawn, m)]
    /\ tpc' = "flow"
    /\ UNCHANGED <<targs, sampleVars>>

\* lines 121-140
FlowSample ==
    /\ tpc = "flow"
    /\ tres' = [tres EXCEPT !.phi = Phi(targs.x0, targs.x1, targs.time),
                            !.flow = Flow(targs.x0, targs.x1),
                            !.cond = TrainCond(tres.rand_span_mask, targs.x1)]
    /\ tpc' = "dropout"
    /\ UNCHANGED <<targs, sampleVars>>

\* lines 142-148
Dropout ==
    /\ tpc = "dropout"
    /\ tres' = [tres EXCEPT !.flags = DropFlags(targs.randoms, targs.audio_drop_prob,
                                                targs.cond_drop_prob)]
    /\ tpc' = "predict"
    /\ UNCHANGED <<targs, sampleVars>>

\* lines 152-159
Predict ==
    /\ tpc = "predict"
    /\ tres' = [tres EXCEPT !.call = [x |-> tres.phi, cond |-> tres.cond,
                                      time |-> targs.time,
                                      drop_audio_cond |-> tres.flags.drop_audio_cond,
                                      drop_text |-> tres.flags.drop_text],
                            !.pred = targs.pred]
    /\ tpc' = "loss"
    /\ UNCHANGED <<targs, sampleVars>>

\* lines 161-168
Loss ==
    /\ tpc = "loss"
    /\ tres' = [tres EXCEPT !.loss = MaskedLoss(tres.rand_span_mask,
                                                SquaredError(tres.pred, tres.flow),
                                                targs.channels)]
    /\ tpc' = "done"
    /\ UNCHANGED <<targs, sampleVars>>

NextTrain ==
    \/ Masks
    \/ FlowSample
    \/ Dropout
    \/ Predict
    \/ Loss

(***************************************************************************)
(* The calls of sample that are checked.  Every family holds CoreCalls, so *)
(* that each way through sample is taken, and widens the arguments its     *)
(* claims are about.                                                       *)
(***************************************************************************)

IntDur(d) == [kind |-> "int", v |-> <<d>>]
ArrayDur(ds) == [kind |-> "array", v |-> ds]
NoDur == [kind |-> "none", v |-> <<>>]

\* sample's defaults (lines 226-237) on one example of one frame, with a
\* duration of 2 frames and 2 grid points
BaseCall ==
    [batch |-> 1, cond_seq_len |-> 1, lens |-> None, text |-> None,
     duration |-> IntDur(2), steps |-> 2, method |-> "euler",
     cfg_strength |-> 2 * Micro, speed |-> 4, seed |-> NoInt,
     max_duration |-> 4096, no_ref_audio |-> FALSE, edit_mask |-> None,
     predictor |-> NoInt, sample_rate |-> 24000, hop_length |-> 256,
     velocity |-> [c |-> 1, u |-> 0 - 1], rng0 |-> [key |-> 0 - 1, n |-> 0]]

CoreCalls ==
    { [BaseCall EXCEPT !.method = m, !.duration = d.dur, !.predictor = d.pred,
                       !.sample_rate = 10, !.hop_length = 4] :
        m \in {"euler", "midpoint"},
        d \in { [dur |-> IntDur(2), pred |-> NoInt],
                [dur |-> NoDur, pred |-> NoInt],
                [dur |-> NoDur, pred |-> Some(4)] } }

\* per-example values: the same for every example, or one apart (mod the range)
ExRows(b, lo, hi) ==
    { [i \in 1..b |-> c] : c \in lo..hi }
    \cup { [i \in 1..b |-> lo + ((o + i - 1) % (hi - lo + 1))] : o \in 0..(hi - lo) }

\* text of nt ids per example, the first ks[i] real and the rest the padding -1
TextOf(ks, nt) ==
    [i \in DOMAIN ks |-> [j \in 1..nt |-> IF j <= ks[i] THEN j ELSE 0 - 1]]

\* the edit masks that fit cond_mask's shape: one row for every example, or
\* that row for the first example and its complement for the others
EditMasks(a) ==
    LET w == SeqMax(ResolveLens(a))
    IN  {None}
        \cup { Some([i \in 1..a.batch |-> row]) : row \in [1..w -> BOOLEAN] }
        \cup { Some([i \in 1..a.batch |->
                        [p \in 1..w |-> IF i = 1 THEN row[p] ELSE ~row[p]]]) :
                  row \in [1..w -> BOOLEAN] }

\* lens and text as the caller may give them: absent, or one value per example
LensChoices(b, hi) == {None} \cup { Some(r) : r \in ExRows(b, 0, hi) }
TextChoices(b, lo) ==
    {None} \cup { Some(TextOf(r, MaxText)) : r \in ExRows(b, lo, MaxText) }
SeedChoices == {NoInt} \cup { Some(k) : k \in 0..MaxSeed }

\* the conditioning and its mask: every shape, lens, text length, edit mask
\* and no_ref_audio, with durations and max_duration below and above lens
MaskCall(b, n, l, t, d, md, nr) ==
    [BaseCall EXCEPT !.batch = b, !.cond_seq_len = n, !.lens = l, !.text = t,
                     !.duration = IntDur(d), !.max_duration = md,
                     !.no_ref_audio = nr]

Init ==
    \/ \E a \in CoreCalls : SampleInit(a)
    \/ \E b \in 1..MaxBatch, n \in 1..MaxCondLen :
         \E l \in LensChoices(b, n), t \in TextChoices(b, 0), d \in {1, MaxDur},
            md \in {MaxCondLen, MaxDur}, nr \in BOOLEAN :
              \E e \in EditMasks(MaskCall(b, n, l, t, d, md, nr)) :
                  SampleInit([MaskCall(b, n, l, t, d, md, nr) EXCEPT !.edit_mask = e])

Spec == Init /\ [][NextSample]_vars

\* the solver, its grid and the guidance: every method name, grid size,
\* guidance strength around the threshold, and answer of the transformer
InitSolver ==
    \/ \E a \in CoreCalls : SampleInit(a)
    \/ \E n \in 1..MaxSteps, m \in {"euler", "midpoint", "rk4"},
          g \in {0 - Micro, 0, CfgEpsilonMicro - 1, CfgEpsilonMicro,
                 CfgEpsilonMicro + 1, 2 * Micro},
          c \in (0 - MaxPred)..MaxPred, u \in (0 - MaxPred)..MaxPred :
            SampleInit([BaseCall EXCEPT !.steps = n, !.method = m,
                                        !.cfg_strength = g,
                                        !.velocity = [c |-> c, u |-> u]])

SpecSolver == InitSolver /\ [][NextSample]_vars

\* the states the process-wide generator may be in when sample is entered
RngStates ==
    { [key |-> k, n |-> n] : k \in (0 - 1)..MaxSeed, n \in 0..1 }

\* the noise: with and without a seed, from every state of the generator
InitSeed ==
    \/ \E a \in CoreCalls : SampleInit(a)
    \/ \E b \in 1..MaxBatch :
         \E ds \in [1..b -> 2..3], sd \in SeedChoices, r \in RngStates :
            SampleInit([BaseCall EXCEPT !.batch = b, !.duration = ArrayDur(ds),
                                        !.seed = sd, !.rng0 = r, !.steps = 1])

SpecSeed == InitSeed /\ [][NextSample]_vars

\* an explicit duration, an int or one per example
DurChoices(b) ==
    { IntDur(k) : k \in 0..(MaxDur + 1) }
    \cup { ArrayDur(r) : r \in ExRows(b, 1, MaxDur + 1) }

\* the duration: explicit against lens and max_duration, predicted from
\* seconds (in quarters) at several rates and speeds, missing, and explicit
\* on a model that has a predictor
InitDuration ==
    \/ \E a \in CoreCalls : SampleInit(a)
    \/ \E b \in 1..MaxBatch :
         \E l \in LensChoices(b, MaxCondLen), t \in TextChoices(b, MaxText - 1),
            d \in DurChoices(b), md \in 0..MaxDur :
              SampleInit([BaseCall EXCEPT !.batch = b, !.cond_seq_len = MaxCondLen,
                                          !.lens = l, !.text = t, !.duration = d,
                                          !.max_duration = md])
    \/ \E q \in (0 - 2)..(2 * MaxDur), sr \in {8, 10, 11, 12}, hop \in {2, 4},
          sp \in {2, 3, 4, 6, 8}, l \in 0..1 :
            SampleInit([BaseCall EXCEPT !.duration = NoDur, !.predictor = Some(q),
                                        !.sample_rate = sr, !.hop_length = hop,
                                        !.speed = sp, !.lens = Some(<<l>>)])
    \/ \E b \in 1..MaxBatch, sd \in SeedChoices,
          m \in {"euler", "midpoint", "rk4"}, r \in RngStates :
            SampleInit([BaseCall EXCEPT !.duration = NoDur, !.batch = b,
                                        !.seed = sd, !.method = m, !.rng0 = r])
    \/ \E b \in 1..MaxBatch, q \in {0, 2 * MaxDur} :
         \E d \in DurChoices(b) :
            SampleInit([BaseCall EXCEPT !.duration = d, !.predictor = Some(q),
                                        !.batch = b])

SpecDuration == InitDuration /\ [][NextSample]_vars

(***************************************************************************)
(* Properties of sample.                                                   *)
(***************************************************************************)

\* sample got past line 298: the noise and the padded conditioning are sized
Sized == pc \in {"noise", "euler", "midpoint", "done"}

\* the duration asked for example b: the explicit one, or the predicted one
Requested(b) ==
    IF args.duration.kind = "int" THEN args.duration.v[1]
    ELSE IF args.duration.kind = "array" THEN args.duration.v[b]
    ELSE FrameCount(args.predictor.v, args.sample_rate, args.hop_length, args.speed)

\* C1 as stated: for every example, lens + 1 <= duration <= max_duration,
\* whatever the duration asked for, lens and max_duration are.
C1_Original ==
    Sized => \A b \in 1..args.batch :
                /\ lens[b] + 1 <= duration.v[b]
                /\ duration.v[b] <= args.max_duration

\* C1 (amended): for every example the resolved duration is
\* min(max(lens + 1, duration asked for), max_duration).  It never exceeds
\* max_duration, a duration above max_duration is clipped down to it, and a
\* duration below lens + 1 is raised to lens + 1 only when lens + 1 does not
\* itself exceed max_duration.  The noise of each example has that many
\* frames and the padded conditioning the largest of them.
C1_DurationClamped ==
    Sized => \A b \in 1..args.batch :
                /\ duration.v[b] <= args.max_duration
                /\ lens[b] + 1 <= args.max_duration => lens[b] + 1 <= duration.v[b]
                /\ Requested(b) > args.max_duration => duration.v[b] = args.max_duration
                /\ (Requested(b) < lens[b] + 1 /\ lens[b] + 1 <= args.max_duration)
                      => duration.v[b] = lens[b] + 1
                /\ (lens[b] + 1 <= Requested(b) /\ Requested(b) <= args.max_duration)
                      => duration.v[b] = Requested(b)
                /\ b <= Len(noise) => Len(noise[b]) = duration.v[b]
                /\ Len(cond[b]) = SeqMax(duration.v)
                /\ Len(cond[b]) = max_duration

\* one example's duration was clipped to max_duration, another's raised to
\* lens + 1, and the call went through
C1_Witness ==
    /\ pc = "done"
    /\ args.batch = 2
    /\ Requested(1) > args.max_duration
    /\ duration.v[1] = args.max_duration
    /\ Requested(2) < lens[2] + 1
    /\ duration.v[2] = lens[2] + 1

\* the conditioning mask as the claim describes it: position < lens, and true
\* in edit_mask when one is supplied (positions count from 1 here)
InCondMask(b, p) ==
    /\ p - 1 < lens[b]
    /\ args.edit_mask.some => args.edit_mask.v[b][p]

\* C2 as stated: in the output, a position of the conditioning mask holds the
\* value the caller supplied there and every other position the value of the
\* final trajectory state, whatever lens, text, duration, edit_mask and
\* no_ref_audio are.
C2_Original ==
    pc = "done" =>
        \A b \in 1..args.batch : \A p \in 1..max_duration :
            out[b][p] = IF InCondMask(b, p) THEN CondCell(b, p)
                        ELSE Sampled(ys, y0)[b][p]

\* C2 (amended): in the output, a position of the conditioning mask holds the
\* value the caller supplied there only when no_ref_audio is not set and the
\* position lies inside the conditioning the caller supplied; with
\* no_ref_audio set, or at a position the conditioning was padded to (text
\* longer than the conditioning), it holds 0.  Every other position holds the
\* value of the final trajectory state.
C2_OutputReinserted ==
    pc = "done" =>
        /\ Len(out) = args.batch
        /\ \A b \in 1..args.batch :
            /\ Len(out[b]) = max_duration
            /\ \A p \in 1..max_duration :
                out[b][p] =
                    IF InCondMask(b, p)
                    THEN (IF ~args.no_ref_audio /\ p <= args.cond_seq_len
                          THEN CondCell(b, p) ELSE Zero)
                    ELSE Sampled(ys, y0)[b][p]

\* an output with a reinserted conditioning value, a generated value at a
\* position edit_mask took out of the mask, and a padded position in the mask
C2_Witness ==
    /\ pc = "done"
    /\ args.edit_mask.some
    /\ ~args.no_ref_audio
    /\ \E b \in 1..args.batch : \E p, q, r \in 1..max_duration :
          /\ InCondMask(b, p) /\ out[b][p] = CondCell(b, p)
          /\ q - 1 < lens[b] /\ ~InCondMask(b, q) /\ out[b][q] = TrajCell(Len(ys), b, q)
          /\ InCondMask(b, r) /\ r > args.cond_seq_len /\ out[b][r] = Zero

\* C3: every invocation of fn calls the transformer once, conditioned, and
\* returns its prediction when cfg_strength < 1e-5; otherwise twice,
\* conditioned then unconditioned, and returns
\* conditioned + (conditioned - unconditioned) * cfg_strength.
C3_Guidance ==
    \A k \in 1..Len(fn_log) :
        LET e == fn_log[k]
            flags(c) == <<c.drop_audio_cond, c.drop_text>>
        IN  /\ \A j \in 1..Len(e.calls) :
                 /\ e.calls[j].x = e.x
                 /\ e.calls[j].time = e.t
                 /\ e.preds[j] = IF j = 1 THEN args.velocity.c ELSE args.velocity.u
            /\ IF args.cfg_strength < CfgEpsilonMicro
               THEN /\ Len(e.calls) = 1
                    /\ flags(e.calls[1]) = <<FALSE, FALSE>>
                    /\ e.output = e.preds[1] * Micro
               ELSE /\ Len(e.calls) = 2
                    /\ flags(e.calls[1]) = <<FALSE, FALSE>>
                    /\ flags(e.calls[2]) = <<TRUE, TRUE>>
                    /\ e.output = e.preds[1] * Micro
                                  + (e.preds[1] - e.preds[2]) * args.cfg_strength

\* fn ran with cfg_strength exactly 1e-5 and with two predictions that differ
C3_Witness ==
    /\ Len(fn_log) > 0
    /\ args.cfg_strength = CfgEpsilonMicro
    /\ Len(fn_log[1].calls) = 2
    /\ fn_log[1].preds[1] # fn_log[1].preds[2]

\* C4 as stated: with no_ref_audio set, the conditioning handed to the
\* transformer is all zeros in every call.
C4_StepCondZeroed ==
    args.no_ref_audio =>
        \A k \in 1..Len(fn_log) : \A j \in 1..Len(fn_log[k].calls) :
            fn_log[k].calls[j].cond = zeros_like(fn_log[k].calls[j].cond)

\* sample was called without a duration on a model without a predictor
NoDurationNoPredictor == args.duration.kind = "none" /\ ~args.predictor.some

\* C5: sample without a duration and without a predictor never gets past the
\* duration check: it ends in the ValueError of line 278, with no transformer
\* call made, no noise drawn, no seed applied and no result.
C5_MissingDurationFails ==
    NoDurationNoPredictor =>
        /\ pc \in {"start", "duration", "error"}
        /\ pc = "error" => err = "ValueError: duration"
        /\ fn_log = <<>>
        /\ predictor_calls = 0
        /\ seed_calls = 0
        /\ rng = args.rng0
        /\ noise = <<>>
        /\ out = <<>>

\* the ValueError was raised in a call that carried a seed
C5_Witness ==
    /\ NoDurationNoPredictor
    /\ pc = "error"
    /\ err = "ValueError: duration"
    /\ args.seed.some
    /\ args.batch = 2

\* invocations of fn per turn of the solver's loop
FnPerStep == IF args.method = "midpoint" THEN 2 ELSE 1

\* C8 as stated: fn is invoked once per integration step, steps - 1 times in
\* all, for either solver.
C8_Original ==
    pc = "done" => Len(fn_log) = args.steps - 1

\* C8 (amended): over a grid of steps >= 1 points, fn is invoked once per
\* integration step by euler (steps - 1 times in all) and twice per step by
\* midpoint (2 * (steps - 1) times in all); every invocation has materialized
\* its result when it returns.
C8_FnInvocations ==
    pc \in {"euler", "midpoint", "done"} =>
        /\ Len(fn_log) = FnPerStep * (Len(ys) - 1)
        /\ \A k \in 1..Len(fn_log) : fn_log[k].evaluated
        /\ pc = "done" => /\ Len(ys) = args.steps
                          /\ Len(fn_log) = FnPerStep * (args.steps - 1)

\* midpoint finished a grid of three points
C8_Witness ==
    /\ pc = "done"
    /\ args.method = "midpoint"
    /\ args.steps = 3
    /\ Len(fn_log) = 4

\* C9: with a seed, the generator is reseeded before each example's draw, so
\* the noise of example i is what the freshly seeded generator gives for its
\* duration: equal durations get identical noise, whatever state the
\* generator was in before the call.  Without a seed the generator is never
\* reseeded and example i's noise is its i-th next draw, distinct from the
\* others'.
C9_SeededNoise ==
    \A i \in 1..Len(noise) :
        IF args.seed.some
        THEN /\ seed_calls = Len(noise)
             /\ noise[i] = Normal([key |-> args.seed.v, n |-> 0], duration.v[i])
             /\ \A j \in 1..Len(noise) :
                   duration.v[i] = duration.v[j] => noise[i] = noise[j]
        ELSE /\ seed_calls = 0
             /\ noise[i] = Normal([key |-> args.rng0.key, n |-> args.rng0.n + i - 1],
                                  duration.v[i])
             /\ \A j \in 1..Len(noise) : i # j => noise[i] # noise[j]

\* two examples of equal duration got identical noise from a seed that the
\* generator was not in before the call
C9_Witness ==
    /\ pc = "done"
    /\ args.batch = 2
    /\ args.seed.some
    /\ args.rng0 # [key |-> args.seed.v, n |-> 0]
    /\ duration.v[1] = duration.v[2]
    /\ noise[1] = noise[2]

\* the duration was predicted
Predicted == args.duration.kind = "none" /\ predictor_calls = 1

\* C10 as stated: the predicted frame count is
\* seconds * sample_rate / hop_length / speed rounded to the nearest integer.
C10_Original ==
    (Predicted /\ pc = "duration") =>
        2 * Abs(duration.v[1] * args.hop_length * args.speed
                - args.predictor.v * args.sample_rate)
            <= args.hop_length * args.speed

\* C10 (amended): the predicted frame count is
\* seconds * (sample_rate // hop_length) / speed with the fraction dropped
\* (towards zero): the frame rate is floored to an integer first and the
\* product is truncated, not rounded to nearest.  With an explicit duration
\* the predictor is not called.
C10_FrameCountTruncated ==
    /\ args.duration.kind # "none" => predictor_calls = 0
    /\ (Predicted /\ pc = "duration") =>
          LET frame_rate == args.sample_rate \div args.hop_length
              exact == args.predictor.v * frame_rate
              frames == duration.v[1]
          IN  /\ Abs(frames) * args.speed <= Abs(exact)
              /\ Abs(exact) < (Abs(frames) + 1) * args.speed
              /\ frames * exact >= 0

\* a prediction with a sample rate that is no multiple of the hop length and
\* a frame count with a fraction
C10_Witness ==
    /\ Predicted
    /\ pc = "duration"
    /\ args.sample_rate % args.hop_length # 0
    /\ (args.predictor.v * (args.sample_rate \div args.hop_length)) % args.speed # 0

(***************************************************************************)
(* The training calls that are checked.                                    *)
(***************************************************************************)

\* the features of the batch: padding (positions at or beyond lens) is 0
X1(b, n, d, ls) ==
    [i \in 1..b |-> [p \in 1..n |-> [c \in 1..d |-> IF p <= ls[i] THEN i + p + c ELSE 0]]]

\* a draw of x0, and an answer of the transformer: values in -1..1 that differ
\* from element to element
X0(b, n, d, o) ==
    [i \in 1..b |-> [p \in 1..n |-> [c \in 1..d |-> ((o + i + 2 * p + c) % 3) - 1]]]

PredOf(b, n, d, q) ==
    [i \in 1..b |-> [p \in 1..n |-> [c \in 1..d |-> ((q + 2 * i + p + 2 * c) % 3) - 1]]]

\* span fractions in tenths
FracVals == <<0, 5, 7, 10>>

TrainCall(b, n, d, l, fr, u, o, q, t, rs, pa, pt) ==
    [batch |-> b, seq_len |-> n, channels |-> d, lens |-> l,
     frac_lengths |-> [i \in 1..b |-> FracVals[fr[i]]],
     starts |-> [i \in 1..b |-> u],
     x1 |-> X1(b, n, d, IF l.some THEN l.v ELSE [i \in 1..b |-> n]),
     x0 |-> X0(b, n, d, o), pred |-> PredOf(b, n, d, q),
     time |-> [i \in 1..b |-> t], randoms |-> rs,
     audio_drop_prob |-> pa, cond_drop_prob |-> pt]

\* the loss: every shape, lens, span, noise and prediction, with the default
\* drop probabilities (lines 45-46, in hundredths); and the dropout: draws of
\* random() on both sides of every probability
InitTrain ==
    \/ \E b \in 1..MaxBatch, n \in 1..MaxCondLen, d \in 1..MaxChannels :
         \E l \in LensChoices(b, n), fr \in ExRows(b, 1, Len(FracVals)),
            u \in {0, 5, 10}, o \in 0..2, q \in 0..2 :
              TrainInit(TrainCall(b, n, d, l, fr, u, o, q, o % 2, <<50, 50>>, 30, 20))
    \/ \E r1 \in {0, 19, 20, 29, 30, 99}, r2 \in {0, 19, 20, 29, 30, 99},
          pa \in {0, 20, 30, 100}, pt \in {0, 20, 30, 100} :
            TrainInit(TrainCall(1, 1, 1, None, <<4>>, 0, 0, 0, 1, <<r1, r2>>, pa, pt))

SpecTrain == InitTrain /\ [][NextTrain]_vars

(***************************************************************************)
(* Properties of __call__.                                                 *)
(***************************************************************************)

RECURSIVE SetSum(_, _)
\* the sum of g over the set S
SetSum(S, g) ==
    IF S = {} THEN 0
    ELSE LET x == CHOOSE y \in S : TRUE IN g[x] + SetSum(S \ {x}, g)

\* the (example, position, channel) elements of the batch
Elements == (1..targs.batch) \X (1..targs.seq_len) \X (1..targs.channels)

\* the elements whose position is in SpanMask and in ValidityMask
SpanElements ==
    { e \in Elements : tres.span_drawn[e[1]][e[2]] /\ e[2] - 1 < tres.lens[e[1]] }

\* the squared error between predicted and target velocity at an element
ErrorAt ==
    [e \in Elements |->
        LET target == targs.x1[e[1]][e[2]][e[3]] - targs.x0[e[1]][e[2]][e[3]]
            predicted == targs.pred[e[1]][e[2]][e[3]]
        IN  (predicted - target) * (predicted - target)]

\* C6: the loss is the sum of the squared errors over exactly the elements of
\* SpanMask intersected with ValidityMask, divided by max(their number, 1e-6):
\* no other element (padding included) changes it, the divisor is never zero,
\* an all-false span mask gives 0 and an all-true one the full mean squared
\* error.
C6_MaskedLoss ==
    tpc = "done" =>
        /\ tres.loss.sum = SetSum(SpanElements, ErrorAt)
        /\ tres.loss.divisor = Max2(Cardinality(SpanElements) * Micro, 1)
        /\ tres.loss.divisor > 0
        /\ SpanElements = {} => (tres.loss.sum = 0 /\ tres.loss.divisor = 1)
        /\ SpanElements = Elements =>
              /\ tres.loss.sum = SetSum(Elements, ErrorAt)
              /\ tres.loss.divisor = Cardinality(Elements) * Micro

\* a loss over a span that leaves out a valid element and a padding element,
\* both with an error that is not 0
C6_Witness ==
    /\ tpc = "done"
    /\ SpanElements # {}
    /\ \E e \in Elements \ SpanElements : e[2] - 1 < tres.lens[e[1]] /\ ErrorAt[e] # 0
    /\ \E e \in Elements : e[2] - 1 >= tres.lens[e[1]] /\ ErrorAt[e] # 0

\* the dropout was drawn
Dropped == tpc \in {"predict", "loss", "done"}

\* C7: random() is drawn twice in every call; drop_text is the second draw
\* against cond_drop_prob and drop_audio_cond the first draw against
\* audio_drop_prob or drop_text; the transformer never gets drop_text without
\* drop_audio_cond.
C7_DropFlags ==
    /\ Dropped =>
          /\ tres.flags.random_calls = 2
          /\ tres.flags.drop_text = (targs.randoms[2] < targs.cond_drop_prob)
          /\ tres.flags.drop_audio_cond =
                ((targs.randoms[1] < targs.audio_drop_prob) \/ tres.flags.drop_text)
          /\ ~(tres.flags.drop_text /\ ~tres.flags.drop_audio_cond)
    /\ tpc \in {"loss", "done"} =>
          /\ tres.call.drop_text = tres.flags.drop_text
          /\ tres.call.drop_audio_cond = tres.flags.drop_audio_cond

\* the transformer was called with drop_audio_cond and without drop_text, on
\* draws that a single draw against cond_drop_prob would have told apart
C7_Witness ==
    /\ tpc = "done"
    /\ tres.call.drop_audio_cond
    /\ ~tres.call.drop_text
    /\ targs.randoms[1] < targs.cond_drop_prob

=============================================================================
